---- MODULE Spec2Model ----
(***************************************************************************)
(* A model of arraytainers/arraytainer.py: the Arraytainer container tree, *)
(* its construction, copying, indexed reads and writes, append/update and  *)
(* the dispatch of array operations over trees.                            *)
(*                                                                         *)
(* Python objects live in a heap (a sequence of cells addressed by their   *)
(* position); a reference is a cell number.  Every method is an operator   *)
(* from a heap to an outcome [h, r, err]: the heap it leaves behind (also  *)
(* when it raises), the object it returns, and the exception it raises.    *)
(***************************************************************************)
EXTENDS Integers, Sequences, FiniteSets, TLC

\* Number of operations the caller makes in one behaviour.
MaxSteps == 2

\* ------------------------------------------------------------------------
\* Small helpers
\* ------------------------------------------------------------------------
Max(a, b) == IF a >= b THEN a ELSE b
Min(a, b) == IF a <= b THEN a ELSE b

RECURSIVE Prod(_)
Prod(s) == IF s = <<>> THEN 1 ELSE Head(s) * Prod(Tail(s))

RECURSIVE Sum(_)
Sum(s) == IF s = <<>> THEN 0 ELSE Head(s) + Sum(Tail(s))

Range(s) == {s[i] : i \in DOMAIN s}

\* Position of x in sequence s, 0 when absent.
IndexOf(s, x) == IF \E i \in DOMAIN s : s[i] = x
                 THEN CHOOSE i \in DOMAIN s : s[i] = x /\ \A j \in 1..(i-1) : s[j] # x
                 ELSE 0

\* ------------------------------------------------------------------------
\* Exceptions
\* ------------------------------------------------------------------------
NoErr == [cls |-> "none", at |-> ""]
Err(cls, at) == [cls |-> cls, at |-> at]
Ok(e) == e.cls = "none"

\* ------------------------------------------------------------------------
\* Keys: the Python objects used as dict keys and as subscripts.
\*   int i | str s | slice(i, j) | tuple e | None | ref i (an ndarray or an
\*   Arraytainer object, heap cell i)
\* ------------------------------------------------------------------------
IntKey(i)      == [t |-> "int",   i |-> i, j |-> 0, s |-> "", e |-> <<>>]
StrKey(s)      == [t |-> "str",   i |-> 0, j |-> 0, s |-> s,  e |-> <<>>]
SliceKey(a, b) == [t |-> "slice", i |-> a, j |-> b, s |-> "", e |-> <<>>]
TupleKey(e)    == [t |-> "tuple", i |-> 0, j |-> 0, s |-> "", e |-> e]
NoneKey        == [t |-> "none",  i |-> 0, j |-> 0, s |-> "", e |-> <<>>]
RefKey(i)      == [t |-> "ref",   i |-> i, j |-> 0, s |-> "", e |-> <<>>]

\* ------------------------------------------------------------------------
\* Heap cells
\*   tree  : an Arraytainer; c is its _contents (a list or dict cell), dtype
\*   list  : a Python list; vs are its elements
\*   dict  : a Python dict; ks its keys in insertion order, vs its values
\*   array : a numpy ndarray: dims its shape, data its elements (row major)
\*   num   : a Python number (data[1]);  slice : a slice object (data[1..2])
\* ------------------------------------------------------------------------
Cell(kind, c, dtype, ks, vs, dims, data) ==
    [kind |-> kind, c |-> c, dtype |-> dtype, ks |-> ks, vs |-> vs,
     dims |-> dims, data |-> data]
TreeCell(c, dtype)         == Cell("tree", c, dtype, <<>>, <<>>, <<>>, <<>>)
ListCell(vs)               == Cell("list", 0, "None", <<>>, vs, <<>>, <<>>)
DictCell(ks, vs)           == Cell("dict", 0, "None", ks, vs, <<>>, <<>>)
ArrCell(dims, data, dtype) == Cell("array", 0, dtype, <<>>, <<>>, dims, data)
NumCell(n)                 == Cell("num", 0, "None", <<>>, <<>>, <<>>, <<n>>)
SliceCell(a, b)            == Cell("slice", 0, "None", <<>>, <<>>, <<>>, <<a, b>>)

\* Outcome of a method.
Out(h, r, err) == [h |-> h, r |-> r, err |-> err]
Alloc(h, cell) == Out(Append(h, cell), Len(h) + 1, NoErr)

is_array(h, x) == h[x].kind = "array"
is_dict(h, x)  == h[x].kind = "dict"
is_list(h, x)  == h[x].kind = "list"
IsTree(h, x)   == h[x].kind = "tree"

\* ------------------------------------------------------------------------
\* numpy (the Leaf Array library), as far as the container calls into it
\* ------------------------------------------------------------------------
IndexError == Err("IndexError", "numpy")

\* A slice bound clipped to an axis of length n, as Python's slice.indices.
Clip(x, n) == IF x < 0 THEN Max(0, x + n) ELSE Min(x, n)

\* The elements an index expression selects from an array of shape dims whose
\* first element is at flat position base+1: the shape of the selection and
\* the flat positions selected, in order.  idxs holds one int, slice or None
\* per indexed axis.
RECURSIVE Region(_, _, _)
Region(dims, base, idxs) ==
    IF idxs = <<>>
    THEN [err |-> NoErr, dims |-> dims, pos |-> [i \in 1..Prod(dims) |-> base + i]]
    ELSE LET ix == Head(idxs) IN
         IF ix.t = "none"
         THEN LET sub == Region(dims, base, Tail(idxs))
              IN  [sub EXCEPT !.dims = IF Ok(sub.err) THEN <<1>> \o sub.dims ELSE <<>>]
         ELSE IF dims = <<>> \/ ix.t \notin {"int", "slice"}
         THEN [err |-> IndexError, dims |-> <<>>, pos |-> <<>>]
         ELSE LET n   == dims[1]
                  row == Prod(Tail(dims))
              IN  IF ix.t = "int"
                  THEN IF ix.i \in (0 - n)..(n - 1)
                       THEN Region(Tail(dims), base + ((ix.i + n) % n) * row, Tail(idxs))
                       ELSE [err |-> IndexError, dims |-> <<>>, pos |-> <<>>]
                  ELSE LET lo     == Clip(ix.i, n)
                           len    == Max(0, Clip(ix.j, n) - lo)
                           sub(k) == Region(Tail(dims), base + k * row, Tail(idxs))
                           m      == Len(sub(0).pos)
                       IN  IF ~Ok(sub(0).err) THEN sub(0)
                           ELSE [err  |-> NoErr,
                                 dims |-> <<len>> \o sub(0).dims,
                                 pos  |-> [i \in 1..(len * m) |->
                                            sub(lo + ((i - 1) \div m)).pos[((i - 1) % m) + 1]]]

\* a[key] for an ndarray a: the selection made by any subscript object.  An
\* int ndarray subscript of no dimension selects as the int it holds, one of
\* one dimension selects the rows it lists.
NpSelect(h, a, key) ==
    LET d   == h[a].dims
        bad == [err |-> IndexError, dims |-> <<>>, pos |-> <<>>]
        isIntArray == key.t = "ref" /\ is_array(h, key.i) /\ h[key.i].dtype = "int"
    IN  IF key.t \in {"int", "slice", "none", "tuple"}
           \/ (isIntArray /\ h[key.i].dims = <<>>)
        THEN Region(d, 0, IF key.t = "tuple" THEN key.e
                          ELSE IF key.t = "ref" THEN <<IntKey(h[key.i].data[1])>>
                          ELSE <<key>>)
        ELSE IF isIntArray /\ Len(h[key.i].dims) = 1 /\ d # <<>>
                /\ \A i \in DOMAIN h[key.i].data :
                       h[key.i].data[i] \in (0 - d[1])..(d[1] - 1)
        THEN [err  |-> NoErr,
              dims |-> <<Len(h[key.i].data)>> \o Tail(d),
              pos  |-> [i \in 1..(Len(h[key.i].data) * Prod(Tail(d))) |->
                         ((h[key.i].data[((i - 1) \div Prod(Tail(d))) + 1] + d[1]) % d[1])
                             * Prod(Tail(d))
                           + ((i - 1) % Prod(Tail(d))) + 1]]
        ELSE bad

\* Broadcasting of two shapes.
PadDims(d, n) == [i \in 1..n |-> IF i <= n - Len(d) THEN 1 ELSE d[i - (n - Len(d))]]
CanBroadcast(d1, d2) ==
    LET n == Max(Len(d1), Len(d2)) IN
    \A i \in 1..n : PadDims(d1, n)[i] = PadDims(d2, n)[i]
                      \/ PadDims(d1, n)[i] = 1 \/ PadDims(d2, n)[i] = 1
BroadcastDims(d1, d2) ==
    LET n == Max(Len(d1), Len(d2)) IN
    [i \in 1..n |-> IF PadDims(d1, n)[i] = 1 THEN PadDims(d2, n)[i] ELSE PadDims(d1, n)[i]]
\* Flat position (from 1) in an array of shape d of the element that
\* broadcasts to flat position f (from 1) of an array of shape r.
Stride(d, i) == Prod(SubSeq(d, i + 1, Len(d)))
BroadcastPos(f, r, d) ==
    LET p == PadDims(d, Len(r)) IN
    1 + Sum([i \in 1..Len(r) |->
               IF p[i] = 1 THEN 0
               ELSE (((f - 1) \div Stride(r, i)) % r[i]) * Stride(p, i)])

RECURSIVE StripOnes(_, _)
StripOnes(d, n) == IF Len(d) > n /\ Head(d) = 1 THEN StripOnes(Tail(d), n) ELSE d

\* np.array(val, dtype=dtype), a new array.
create_array(h, val, dtype) ==
    LET v == h[val] IN
    IF v.kind = "num"
    THEN Alloc(h, ArrCell(<<>>, v.data, IF dtype = "None" THEN "int" ELSE dtype))
    ELSE IF v.kind = "array"
    THEN Alloc(h, ArrCell(v.dims, v.data, IF dtype = "None" THEN v.dtype ELSE dtype))
    ELSE IF v.kind = "slice" /\ dtype = "None"
    THEN Alloc(h, ArrCell(<<>>, v.data, "object"))
    ELSE Out(h, 0, Err("TypeError", "numpy"))

\* a[key], a new array.
NpGet(h, a, key) ==
    LET Selected(sel) ==
            IF ~Ok(sel.err) THEN Out(h, 0, sel.err)
            ELSE Alloc(h, ArrCell(sel.dims,
                                  [i \in DOMAIN sel.pos |-> h[a].data[sel.pos[i]]],
                                  h[a].dtype))
    IN  Selected(NpSelect(h, a, key))

\* a[key] = v, in place; v is an ndarray.
NpSet(h, a, key, v) ==
    LET Selected(sel, vd) ==
            IF ~Ok(sel.err) THEN Out(h, 0, sel.err)
            ELSE IF Len(vd) > Len(sel.dims) \/ ~CanBroadcast(sel.dims, vd)
                    \/ BroadcastDims(sel.dims, vd) # sel.dims
            THEN Out(h, 0, Err("ValueError", "numpy"))
            ELSE Out([h EXCEPT ![a].data =
                         [p \in DOMAIN h[a].data |->
                            IF \E i \in DOMAIN sel.pos : sel.pos[i] = p
                            THEN h[v].data[BroadcastPos(
                                     CHOOSE i \in DOMAIN sel.pos : sel.pos[i] = p,
                                     sel.dims, vd)]
                            ELSE h[a].data[p]]],
                     0, NoErr)
        Stripped(sel) == Selected(sel, StripOnes(h[v].dims, Len(sel.dims)))
    IN  Stripped(NpSelect(h, a, key))

\* The array operation dispatched over trees in this model: np.add(x, y) on
\* two ndarrays (a Python number counts as a 0-d array).
NpAdd(h, x, y) ==
    LET a == h[x]
        b == h[y]
    IN  IF a.dtype = "object" \/ b.dtype = "object"
        THEN Out(h, 0, Err("TypeError", "numpy"))
        ELSE IF ~CanBroadcast(a.dims, b.dims)
        THEN Out(h, 0, Err("ValueError", "numpy"))
        ELSE LET r == BroadcastDims(a.dims, b.dims) IN
             Alloc(h, ArrCell(r,
                      [f \in 1..Prod(r) |-> a.data[BroadcastPos(f, r, a.dims)]
                                              + b.data[BroadcastPos(f, r, b.dims)]],
                      IF "float" \in {a.dtype, b.dtype} THEN "float" ELSE "int"))

\* ------------------------------------------------------------------------
\* Python lists and dicts
\* ------------------------------------------------------------------------
\* The keys of a list or dict cell c, in iteration order.
RawKeys(h, c) == IF is_dict(h, c) THEN h[c].ks
                 ELSE [i \in 1..Len(h[c].vs) |-> IntKey(i - 1)]

\* c[key] on a list or dict cell.
PyGetItem(h, c, key) ==
    LET n == Len(h[c].vs) IN
    IF is_dict(h, c)
    THEN IF key.t = "ref" THEN Out(h, 0, Err("TypeError", "unhashable"))
         ELSE IF IndexOf(h[c].ks, key) = 0 THEN Out(h, 0, Err("KeyError", "dict"))
         ELSE Out(h, h[c].vs[IndexOf(h[c].ks, key)], NoErr)
    ELSE IF key.t # "int" THEN Out(h, 0, Err("TypeError", "list index"))
         ELSE IF key.i \notin (0 - n)..(n - 1) THEN Out(h, 0, Err("IndexError", "list"))
         ELSE Out(h, h[c].vs[((key.i + n) % n) + 1], NoErr)

\* c[key] = v on a list or dict cell.
PySetItem(h, c, key, v) ==
    LET n == Len(h[c].vs) IN
    IF is_dict(h, c)
    THEN IF key.t = "ref" THEN Out(h, 0, Err("TypeError", "unhashable"))
         ELSE IF IndexOf(h[c].ks, key) = 0
         THEN Out([h EXCEPT ![c].ks = Append(@, key), ![c].vs = Append(@, v)], 0, NoErr)
         ELSE Out([h EXCEPT ![c].vs[IndexOf(h[c].ks, key)] = v], 0, NoErr)
    ELSE IF key.t # "int" THEN Out(h, 0, Err("TypeError", "list index"))
         ELSE IF key.i \notin (0 - n)..(n - 1) THEN Out(h, 0, Err("IndexError", "list"))
         ELSE Out([h EXCEPT ![c].vs[((key.i + n) % n) + 1] = v], 0, NoErr)

\* ------------------------------------------------------------------------
\* Construction and copying
\* ------------------------------------------------------------------------
_keys_contain_tuple(h, contents) ==
    \E i \in DOMAIN h[contents].ks : h[contents].ks[i].t = "tuple"

RECURSIVE DeepCopy(_, _, _, _)
RECURSIVE DeepCopyItems(_, _, _, _, _, _)
RECURSIVE Construct(_, _, _, _, _, _)
RECURSIVE _recursive_arraytainer_conversion(_, _, _, _, _, _)

\* copy.deepcopy(x, memo).  stack holds the Arraytainers whose __deepcopy__
\* is in progress: meeting one of them again is Python's unbounded recursion.
DeepCopy(h, memo, stack, x) ==
    LET k == h[x].kind
        R(hh, r, err, mm) == [h |-> hh, r |-> r, err |-> err, memo |-> mm]
        Made(t) == R(t.h, t.r, t.err, IF Ok(t.err) THEN memo @@ (x :> t.r) ELSE memo)
    IN  IF x \in DOMAIN memo THEN R(h, memo[x], NoErr, memo)
        ELSE IF k \in {"num", "slice"} THEN R(h, x, NoErr, memo)
        ELSE IF k = "array"
        THEN R(Append(h, h[x]), Len(h) + 1, NoErr, memo @@ (x :> (Len(h) + 1)))
        ELSE IF k \in {"list", "dict"}
        THEN DeepCopyItems(Append(h, [h[x] EXCEPT !.ks = <<>>, !.vs = <<>>]),
                           memo @@ (x :> (Len(h) + 1)), stack, x, Len(h) + 1, 1)
        ELSE IF x \in stack THEN R(h, 0, Err("RecursionError", "deepcopy"), memo)
        ELSE Made(Construct(h, h[x].c, TRUE, h[x].dtype, TRUE, stack \cup {x}))

DeepCopyItems(h, memo, stack, src, dst, i) ==
    LET Copied(c) ==
            IF ~Ok(c.err) THEN c
            ELSE DeepCopyItems(
                     [c.h EXCEPT ![dst].vs = Append(@, c.r),
                                 ![dst].ks = IF is_dict(h, src)
                                             THEN Append(@, h[src].ks[i]) ELSE @],
                     c.memo, stack, src, dst, i + 1)
    IN  IF i > Len(h[src].vs)
        THEN [h |-> h, r |-> dst, err |-> NoErr, memo |-> memo]
        ELSE Copied(DeepCopy(h, memo, stack, h[src].vs[i]))

_deepcopy_contents(h, contents, stack) ==
    LET Result(c) == Out(c.h, c.r, c.err)
    IN  Result(DeepCopy(h, <<>>, stack, contents))

\* Arraytainer(contents, array_conversions, dtype, deepcopy): the new tree.
Construct(h, contents, array_conversions, dtype, deepcopy, stack) ==
    LET Converted(c2) == IF ~Ok(c2.err) THEN c2 ELSE Alloc(c2.h, TreeCell(c2.r, dtype))
        Copied(c1) ==
            IF ~Ok(c1.err) THEN c1
            ELSE Converted(_recursive_arraytainer_conversion(
                               c1.h, c1.r, dtype, array_conversions, stack, 1))
    IN  IF ~(is_list(h, contents) \/ is_dict(h, contents))
        THEN Out(h, 0, Err("ValueError", "contents must be list-like or dict-like"))
        ELSE IF is_dict(h, contents) /\ _keys_contain_tuple(h, contents)
        THEN Out(h, 0, Err("KeyError", "keys contain a tuple"))
        ELSE Copied(IF deepcopy THEN _deepcopy_contents(h, contents, stack)
                    ELSE Out(h, contents, NoErr))

\* The loop of _recursive_arraytainer_conversion from item i on; it rewrites
\* the list or dict cell contents in place and returns it.
_recursive_arraytainer_conversion(h, contents, dtype, array_conversions, stack, i) ==
    LET val == h[contents].vs[i]
        Converted(new) ==
            IF ~Ok(new.err) THEN new
            ELSE _recursive_arraytainer_conversion(
                     [new.h EXCEPT ![contents].vs[i] = new.r],
                     contents, dtype, array_conversions, stack, i + 1)
    IN  IF i > Len(h[contents].vs) THEN Out(h, contents, NoErr)
        ELSE Converted(IF IsTree(h, val) THEN Out(h, val, NoErr)
                       ELSE IF is_list(h, val) \/ is_dict(h, val)
                       THEN Construct(h, val, array_conversions, dtype, TRUE, stack)
                       ELSE IF array_conversions THEN create_array(h, val, dtype)
                       ELSE Out(h, val, NoErr))

\* Arraytainer.copy()
copy(h, t) ==
    Construct(Append(h, h[h[t].c]), Len(h) + 1, TRUE, h[t].dtype, FALSE, {})

\* Arraytainer.deepcopy()
deepcopy(h, t) == Construct(h, h[t].c, TRUE, h[t].dtype, TRUE, {t})

\* ------------------------------------------------------------------------
\* Caller data: literals as the caller writes them, and their evaluation
\* into heap cells.
\* ------------------------------------------------------------------------
Lit(t, n, ks, items, dims, data) ==
    [t |-> t, n |-> n, ks |-> ks, items |-> items, dims |-> dims, data |-> data]
LNum(n)          == Lit("num", n, <<>>, <<>>, <<>>, <<>>)
LSlice(a, b)     == Lit("slice", 0, <<>>, <<>>, <<>>, <<a, b>>)
LArr(dims, data) == Lit("array", 0, <<>>, <<>>, dims, data)
LList(items)     == Lit("list", 0, <<>>, items, <<>>, <<>>)
LDict(ks, items) == Lit("dict", 0, ks, items, <<>>, <<>>)
\* An object the caller already holds: heap cell n.
LRef(n)          == Lit("ref", n, <<>>, <<>>, <<>>, <<>>)
\* Arraytainer(list-or-dict literal), built by the default constructor.
LTree(lit)       == Lit("tree", 0, <<>>, <<lit>>, <<>>, <<>>)
\* Arraytainer(list-or-dict literal, array_conversions=False).
LRawTree(lit)    == Lit("rawtree", 0, <<>>, <<lit>>, <<>>, <<>>)

RECURSIVE Eval(_, _)
RECURSIVE EvalItems(_, _, _, _)
Eval(h, lit) ==
    LET Built(c) == Construct(c.h, c.r, lit.t = "tree", "None", TRUE, {})
    IN  IF lit.t = "ref" THEN Out(h, lit.n, NoErr)
        ELSE IF lit.t = "num" THEN Alloc(h, NumCell(lit.n))
        ELSE IF lit.t = "slice" THEN Alloc(h, SliceCell(lit.data[1], lit.data[2]))
        ELSE IF lit.t = "array" THEN Alloc(h, ArrCell(lit.dims, lit.data, "int"))
        ELSE IF lit.t \in {"tree", "rawtree"} THEN Built(Eval(h, lit.items[1]))
        ELSE EvalItems(h, lit, <<>>, 1)
EvalItems(h, lit, vs, i) ==
    LET Next1(v) == EvalItems(v.h, lit, Append(vs, v.r), i + 1)
    IN  IF i > Len(lit.items)
        THEN Alloc(h, IF lit.t = "list" THEN ListCell(vs) ELSE DictCell(lit.ks, vs))
        ELSE Next1(Eval(h, lit.items[i]))

\* ------------------------------------------------------------------------
\* Arraytainer: keys and indexed reads
\* ------------------------------------------------------------------------
contents_type(h, t) == IF is_dict(h, h[t].c) THEN "dict" ELSE "list"
keys(h, t)   == RawKeys(h, h[t].c)
values(h, t) == h[h[t].c].vs
KeySet(h, t) == Range(keys(h, t))
\* key in self.keys()
KeyIn(h, t, key) == key \in KeySet(h, t)
\* len(self)
TreeLen(h, t) == Len(values(h, t))

is_slice(key) ==
    \/ key.t = "slice"
    \/ key.t = "tuple" /\ \A i \in DOMAIN key.e : key.e[i].t \in {"none", "slice", "int"}
    \/ key.t = "none"
IsArrayKey(h, key) == key.t = "ref" /\ is_array(h, key.i)
IsTreeKey(h, key)  == key.t = "ref" /\ IsTree(h, key.i)

\* The object in cell v used as a subscript.
AsKey(h, v) == IF h[v].kind = "num" THEN IntKey(h[v].data[1])
               ELSE IF h[v].kind = "slice" THEN SliceKey(h[v].data[1], h[v].data[2])
               ELSE RefKey(v)

RECURSIVE __getitem__(_, _, _, _)
RECURSIVE Subscript(_, _, _, _)
RECURSIVE _get_with_arraytainer(_, _, _, _, _, _)
RECURSIVE _get_with_array(_, _, _, _, _, _)

\* A variant that never turns the item into a list.
WrapAsDict(h, t, item) == Construct(h, item, TRUE, "None", TRUE, {})

\* The dict item (filled per key) turned into the returned tree.
WrapItem(h, t, item) ==
    LET Wrap(l) == Construct(l.h, l.r, TRUE, "None", TRUE, {})
    IN  Wrap(IF contents_type(h, t) = "list" THEN Alloc(h, ListCell(h[item].vs))
             ELSE Out(h, item, NoErr))

\* x[key] for the object in cell x.
Subscript(h, x, key, stack) ==
    IF IsTree(h, x) THEN __getitem__(h, x, key, stack)
    ELSE IF is_array(h, x) THEN NpGet(h, x, key)
    ELSE Out(h, 0, Err("TypeError", "not subscriptable"))

\* The loop of _get_with_arraytainer from the i-th item of the index tree on;
\* item is the dict being filled.
_get_with_arraytainer(h, t, arraytainer_key, item, i, stack) ==
    LET key == keys(h, arraytainer_key)[i]
        val == values(h, arraytainer_key)[i]
        Stored(got) ==
            IF ~Ok(got.err) THEN got
            ELSE _get_with_arraytainer(PySetItem(got.h, item, key, got.r).h,
                                       t, arraytainer_key, item, i + 1, stack)
        Found(mine) ==
            IF is_array(h, mine) /\ IsTree(h, val)
            THEN Out(h, 0, Err("KeyError", "index contains keys not found"))
            ELSE Stored(Subscript(h, mine, AsKey(h, val), stack))
    IN  IF i > TreeLen(h, arraytainer_key) THEN WrapItem(h, t, item)
        ELSE IF ~KeyIn(h, t, key)
        THEN Out(h, 0, Err("KeyError", "index contains keys not found"))
        ELSE Found(PyGetItem(h, h[t].c, key).r)

\* The loop of _get_with_array from the i-th key of self on.
_get_with_array(h, t, array_key, item, i, stack) ==
    LET Stored(got) ==
            IF ~Ok(got.err) THEN got
            ELSE _get_with_array(PySetItem(got.h, item, keys(h, t)[i], got.r).h,
                                 t, array_key, item, i + 1, stack)
    IN  IF i > TreeLen(h, t) THEN WrapItem(h, t, item)
        ELSE Stored(Subscript(h, values(h, t)[i], array_key, stack))

_get_with_regular_key(h, t, key) ==
    LET Got(item) ==
            IF Ok(item.err) THEN item
            ELSE Out(h, 0, Err("KeyError", "not a key in this Arraytainer"))
    IN  Got(PyGetItem(h, h[t].c, key))

\* self[key].  stack holds the reads in progress: the same read met again is
\* Python's unbounded recursion.
__getitem__(h, t, key, stack) ==
    IF <<t, key>> \in stack THEN Out(h, 0, Err("RecursionError", "getitem"))
    ELSE IF IsTreeKey(h, key)
    THEN _get_with_arraytainer(Append(h, DictCell(<<>>, <<>>)), t, key.i, Len(h) + 1, 1,
                               stack \cup {<<t, key>>})
    ELSE IF IsArrayKey(h, key) \/ is_slice(key)
    THEN _get_with_array(Append(h, DictCell(<<>>, <<>>)), t, key, Len(h) + 1, 1,
                         stack \cup {<<t, key>>})
    ELSE _get_with_regular_key(h, t, key)

\* ------------------------------------------------------------------------
\* Arraytainer: indexed writes, append, update
\* ------------------------------------------------------------------------
_convert_to_array_or_arraytainer(h, t, val) ==
    IF is_array(h, val) \/ IsTree(h, val) THEN Out(h, val, NoErr)
    ELSE IF is_list(h, val) \/ is_dict(h, val)
    THEN Construct(h, val, TRUE, h[t].dtype, TRUE, {})
    ELSE create_array(h, val, h[t].dtype)

_set_array_values(h, t, key, mask, new_value) ==
    NpSet(h, PyGetItem(h, h[t].c, key).r, mask, new_value)

\* A variant in which a list grows by assignment at or past its end.
SetGrowing(h, t, key, new_val) ==
    IF is_list(h, h[t].c) /\ key.t = "int" /\ key.i >= Len(h[h[t].c].vs)
    THEN Out([h EXCEPT ![h[t].c].vs = Append(@, new_val)], 0, NoErr)
    ELSE PySetItem(h, h[t].c, key, new_val)

_set_with_regular_key(h, t, key, new_val) ==
    LET Set(w) ==
            IF w.err.cls = "IndexError" /\ contents_type(h, t) = "list"
            THEN Out(h, 0, Err("KeyError", "use the append method instead"))
            ELSE w
    IN  Set(PySetItem(h, h[t].c, key, new_val))

RECURSIVE __setitem__(_, _, _, _, _)
RECURSIVE SubscriptSet(_, _, _, _, _)
RECURSIVE _set_with_array_tree(_, _, _, _, _, _)
RECURSIVE _set_with_array_bcast(_, _, _, _, _, _)
RECURSIVE _set_with_arraytainer(_, _, _, _, _, _)

\* x[key] = v for the object in cell x, which is not an ndarray.
SubscriptSet(h, x, key, v, stack) ==
    IF IsTree(h, x) THEN __setitem__(h, x, key, v, stack)
    ELSE Out(h, 0, Err("TypeError", "does not support item assignment"))

\* A variant that walks the keys of self and looks each up in new_val.
RECURSIVE SetPerSelfKey(_, _, _, _, _, _)
SetPerSelfKey(h, t, array, new_val, i, stack) ==
    LET key  == keys(h, t)[i]
        mine == values(h, t)[i]
        Written(w) ==
            IF ~Ok(w.err) THEN Out(w.h, 0, w.err)
            ELSE SetPerSelfKey(w.h, t, array, new_val, i + 1, stack)
        Found(theirs) ==
            IF is_array(h, mine) /\ ~is_array(h, theirs)
            THEN Out(h, 0, Err("KeyError", "value contains keys not found"))
            ELSE Written(IF is_array(h, mine)
                         THEN _set_array_values(h, t, key, array, theirs)
                         ELSE SubscriptSet(h, mine, array, theirs, stack))
    IN  IF i > TreeLen(h, t) THEN Out(h, 0, NoErr)
        ELSE IF ~KeyIn(h, new_val, key)
        THEN Out(h, 0, Err("KeyError", "value contains keys not found"))
        ELSE Found(PyGetItem(h, h[new_val].c, key).r)

\* _set_with_array, new_val a tree: the loop from the i-th key of new_val on.
_set_with_array_tree(h, t, array, new_val, i, stack) ==
    LET key    == keys(h, new_val)[i]
        theirs == values(h, new_val)[i]
        Written(w) ==
            IF ~Ok(w.err) THEN Out(w.h, 0, w.err)
            ELSE _set_with_array_tree(w.h, t, array, new_val, i + 1, stack)
        Found(mine) ==
            IF is_array(h, mine) /\ ~is_array(h, theirs)
            THEN Out(h, 0, Err("KeyError", "value contains keys not found"))
            ELSE Written(IF is_array(h, mine)
                         THEN _set_array_values(h, t, key, array, theirs)
                         ELSE SubscriptSet(h, mine, array, theirs, stack))
    IN  IF i > TreeLen(h, new_val) THEN Out(h, 0, NoErr)
        ELSE IF ~KeyIn(h, t, key)
        THEN Out(h, 0, Err("KeyError", "value contains keys not found"))
        ELSE Found(PyGetItem(h, h[t].c, key).r)

\* _set_with_array, new_val not a tree: the loop from the i-th key of self on.
_set_with_array_bcast(h, t, array, new_val, i, stack) ==
    LET Written(w) ==
            IF ~Ok(w.err) THEN Out(w.h, 0, w.err)
            ELSE _set_with_array_bcast(w.h, t, array, new_val, i + 1, stack)
    IN  IF i > TreeLen(h, t) THEN Out(h, 0, NoErr)
        ELSE Written(IF is_array(h, values(h, t)[i])
                     THEN _set_array_values(h, t, keys(h, t)[i], array, new_val)
                     ELSE SubscriptSet(h, values(h, t)[i], array, new_val, stack))

_set_with_array(h, t, array, new_val, stack) ==
    IF IsTree(h, new_val) THEN _set_with_array_tree(h, t, array, new_val, 1, stack)
    ELSE _set_with_array_bcast(h, t, array, new_val, 1, stack)

\* The loop of _set_with_arraytainer from the i-th item of the index tree on.
_set_with_arraytainer(h, t, arraytainer, new_val, i, stack) ==
    LET key  == keys(h, arraytainer)[i]
        mask == AsKey(h, values(h, arraytainer)[i])
        Written(w) ==
            IF ~Ok(w.err) THEN Out(w.h, 0, w.err)
            ELSE _set_with_arraytainer(w.h, t, arraytainer, new_val, i + 1, stack)
        Found(self_val, theirs) ==
            IF ~Ok(self_val.err) THEN self_val
            ELSE IF IsTree(h, self_val.r) /\ IsTree(h, new_val)
            THEN IF ~Ok(theirs.err) THEN theirs
                 ELSE Written(__setitem__(h, self_val.r, mask, theirs.r, stack))
            ELSE IF IsTree(h, self_val.r) /\ is_array(h, new_val)
            THEN Written(__setitem__(h, self_val.r, mask, new_val, stack))
            ELSE IF is_array(h, self_val.r) /\ is_array(h, new_val)
            THEN Written(_set_array_values(h, t, key, mask, new_val))
            ELSE IF is_array(h, self_val.r) /\ IsTree(h, new_val)
            THEN IF ~KeyIn(h, new_val, key) \/ ~is_array(h, theirs.r)
                 THEN Out(h, 0, Err("KeyError", "value contains keys not found"))
                 ELSE Written(_set_array_values(h, t, key, mask, theirs.r))
            ELSE Written(Out(h, 0, NoErr))
    IN  IF i > TreeLen(h, arraytainer) THEN Out(h, 0, NoErr)
        ELSE Found(PyGetItem(h, h[t].c, key),
                   IF IsTree(h, new_val) THEN PyGetItem(h, h[new_val].c, key)
                   ELSE Out(h, 0, NoErr))

\* self[key] = new_val.  stack holds the writes in progress: the same write
\* met again is Python's unbounded recursion.
__setitem__(h, t, key, new_val, stack) ==
    LET Converted(conv, me) ==
            IF ~Ok(conv.err) THEN conv
            ELSE IF me \in stack THEN Out(conv.h, 0, Err("RecursionError", "setitem"))
            ELSE IF IsArrayKey(h, key) \/ is_slice(key)
            THEN _set_with_array(conv.h, t, key, conv.r, stack \cup {me})
            ELSE IF IsTreeKey(h, key)
            THEN _set_with_arraytainer(conv.h, t, key.i, conv.r, 1, stack \cup {me})
            ELSE _set_with_regular_key(conv.h, t, key, conv.r)
        Stamped(conv) == Converted(conv, <<t, key, conv.r>>)
    IN  Stamped(_convert_to_array_or_arraytainer(h, t, new_val))

RECURSIVE append(_, _, _, _)
\* self.append(new_val, *key_iterable)
append(h, t, new_val, key_iterable) ==
    LET key == Head(key_iterable)
        Descend(conv, child, raw) ==
            IF ~Ok(child.err) THEN child
            ELSE IF ~IsTree(child.h, child.r)
            THEN Out(child.h, 0, Err("KeyError", "element is not an Arraytainer"))
            ELSE IF ~Ok(raw.err) THEN raw
            ELSE append(child.h, raw.r, conv.r, Tail(key_iterable))
        Got(conv, child) == Descend(conv, child, PyGetItem(child.h, h[t].c, key))
        Converted(conv) ==
            IF ~Ok(conv.err) THEN conv
            ELSE IF key_iterable # <<>> THEN Got(conv, __getitem__(conv.h, t, key, {}))
            ELSE IF contents_type(h, t) # "list"
            THEN Out(conv.h, 0, Err("TypeError", "cannot append to dictionary-like"))
            ELSE Out([conv.h EXCEPT ![h[t].c].vs = Append(@, conv.r)], 0, NoErr)
    IN  Converted(_convert_to_array_or_arraytainer(h, t, new_val))

\* dict.update(other) as self.contents.update(new_val) uses it.
RECURSIVE DictUpdateFromTree(_, _, _, _)
DictUpdateFromTree(h, c, other, i) ==
    IF i > TreeLen(h, other) THEN Out(h, 0, NoErr)
    ELSE DictUpdateFromTree(PySetItem(h, c, keys(h, other)[i], values(h, other)[i]).h,
                            c, other, i + 1)
RECURSIVE DictUpdateFromRows(_, _, _, _)
DictUpdateFromRows(h, c, arr, i) ==
    IF i > h[arr].dims[1] THEN Out(h, 0, NoErr)
    ELSE DictUpdateFromRows(
             PySetItem(Append(h, NumCell(h[arr].data[2 * i])), c,
                       IntKey(h[arr].data[2 * i - 1]), Len(h) + 1).h,
             c, arr, i + 1)
DictUpdate(h, c, other) ==
    IF IsTree(h, other) THEN DictUpdateFromTree(h, c, other, 1)
    ELSE IF h[other].dims = <<>> THEN Out(h, 0, Err("TypeError", "not iterable"))
    ELSE IF h[other].dims[1] = 0 THEN Out(h, 0, NoErr)
    ELSE IF Len(h[other].dims) = 1 THEN Out(h, 0, Err("TypeError", "update sequence"))
    ELSE IF Len(h[other].dims) = 2 /\ h[other].dims[2] = 2
    THEN DictUpdateFromRows(h, c, other, 1)
    ELSE IF h[other].dims[2] = 2 THEN Out(h, 0, Err("TypeError", "unhashable"))
    ELSE Out(h, 0, Err("ValueError", "update sequence"))

RECURSIVE update(_, _, _, _)
\* self.update(new_val, *key_iterable)
update(h, t, new_val, key_iterable) ==
    LET key == Head(key_iterable)
        Descend(conv, child, raw) ==
            IF ~Ok(child.err) THEN child
            ELSE IF ~IsTree(child.h, child.r)
            THEN Out(child.h, 0, Err("KeyError", "element is not an Arraytainer"))
            ELSE IF ~Ok(raw.err) THEN raw
            ELSE update(child.h, raw.r, conv.r, Tail(key_iterable))
        Got(conv, child) == Descend(conv, child, PyGetItem(child.h, h[t].c, key))
        Converted(conv) ==
            IF ~Ok(conv.err) THEN conv
            ELSE IF key_iterable # <<>> THEN Got(conv, __getitem__(conv.h, t, key, {}))
            ELSE IF contents_type(h, t) # "dict"
            THEN Out(conv.h, 0, Err("TypeError", "cannot update a list-like"))
            ELSE DictUpdate(conv.h, h[t].c, conv.r)
    IN  Converted(_convert_to_array_or_arraytainer(h, t, new_val))

\* ------------------------------------------------------------------------
\* Dispatch of an array operation over trees
\* ------------------------------------------------------------------------
\* The Arraytainers among the (positional) arguments, in order.
_list_arraytainers_in_args(h, args) == SelectSeq(args, LAMBDA a : IsTree(h, a))

\* max(arraytainer_list, key=len): the first of the longest.
Largest(h, arraytainer_list) ==
    arraytainer_list[CHOOSE i \in DOMAIN arraytainer_list :
        /\ \A j \in DOMAIN arraytainer_list :
               TreeLen(h, arraytainer_list[j]) <= TreeLen(h, arraytainer_list[i])
        /\ \A j \in 1..(i - 1) :
               TreeLen(h, arraytainer_list[j]) < TreeLen(h, arraytainer_list[i])]

\* A variant that lets every key set pass.
NoSubsetCheck(keyset, largest_keyset) == TRUE

\* keyset.issubset(largest_keyset)
IsSubset(keyset, largest_keyset) == keyset \subseteq largest_keyset

\* The exception _check_arg_compatability raises, if any.
_check_arg_compatability(h, arraytainer_list, largest_arraytainer) ==
    LET bad(a) == contents_type(h, a) # contents_type(h, largest_arraytainer)
                    \/ ~IsSubset(KeySet(h, a), KeySet(h, largest_arraytainer))
        First(a) == IF contents_type(h, a) # contents_type(h, largest_arraytainer)
                    THEN Err("KeyError", "must be all dictionary-like or all list-like")
                    ELSE Err("KeyError", "keys are not a subset of the largest")
    IN  IF \A i \in DOMAIN arraytainer_list : ~bad(arraytainer_list[i]) THEN NoErr
        ELSE First(arraytainer_list[CHOOSE i \in DOMAIN arraytainer_list :
                       /\ bad(arraytainer_list[i])
                       /\ \A j \in 1..(i - 1) : ~bad(arraytainer_list[j])])

_get_shared_keyset(h, arraytainer_list) ==
    {k \in KeySet(h, arraytainer_list[1]) :
        \A i \in DOMAIN arraytainer_list : k \in KeySet(h, arraytainer_list[i])}

\* The arguments of the call made for one key: a tree contributes its child at
\* the key, or nothing when it lacks the key; anything else passes through.
RECURSIVE _prepare_func_args(_, _, _)
_prepare_func_args(h, args, key) ==
    IF args = <<>> THEN <<>>
    ELSE (IF IsTree(h, Head(args))
          THEN IF KeyIn(h, Head(args), key)
               THEN <<PyGetItem(h, h[Head(args)].c, key).r>> ELSE <<>>
          ELSE <<Head(args)>>)
         \o _prepare_func_args(h, Tail(args), key)

RECURSIVE _manage_func_call(_, _)
RECURSIVE CallFunc(_, _)
RECURSIVE DispatchKeys(_, _, _, _, _, _)

\* func(*args) for func = np.add: numpy's own addition on arrays and numbers,
\* and the dispatch hook as soon as an argument is an Arraytainer.
CallFunc(h, args) ==
    IF Len(args) # 2 THEN Out(h, 0, Err("TypeError", "add takes two arguments"))
    ELSE IF \E i \in DOMAIN args : IsTree(h, args[i])
    THEN _manage_func_call(h, args)
    ELSE IF \A i \in DOMAIN args : h[args[i]].kind \in {"array", "num"}
    THEN NpAdd(h, args[1], args[2])
    ELSE Out(h, 0, Err("TypeError", "numpy"))

\* The loop of _manage_func_call over the shared keys, taken in the order of
\* the largest tree's keys, from its i-th key on.
DispatchKeys(h, args, largest, shared_keyset, func_return, i) ==
    LET key == keys(h, largest)[i]
        Stored(res) ==
            IF ~Ok(res.err) THEN res
            ELSE DispatchKeys(PySetItem(res.h, func_return, key, res.r).h,
                              args, largest, shared_keyset, func_return, i + 1)
    IN  IF i > TreeLen(h, largest) THEN Out(h, func_return, NoErr)
        ELSE IF key \notin shared_keyset
        THEN DispatchKeys(h, args, largest, shared_keyset, func_return, i + 1)
        ELSE Stored(CallFunc(h, _prepare_func_args(h, args, key)))

_manage_func_call(h, args) ==
    LET Wrapped(filled) ==
            IF ~Ok(filled.err) THEN filled
            ELSE Construct(filled.h, filled.r, TRUE, "None", TRUE, {})
        Copied(arraytainer_list, largest_arraytainer, func_return) ==
            IF ~Ok(func_return.err) THEN func_return
            ELSE Wrapped(DispatchKeys(func_return.h, args, largest_arraytainer,
                                      _get_shared_keyset(h, arraytainer_list),
                                      func_return.r, 1))
        Checked(arraytainer_list, largest_arraytainer, compat) ==
            IF ~Ok(compat) THEN Out(h, 0, compat)
            ELSE Copied(arraytainer_list, largest_arraytainer,
                        _deepcopy_contents(h, h[largest_arraytainer].c, {}))
        Listed(arraytainer_list, largest_arraytainer) ==
            Checked(arraytainer_list, largest_arraytainer,
                    _check_arg_compatability(h, arraytainer_list, largest_arraytainer))
        Found(arraytainer_list) == Listed(arraytainer_list, Largest(h, arraytainer_list))
    IN  Found(_list_arraytainers_in_args(h, args))

\* ------------------------------------------------------------------------
\* from_array
\* ------------------------------------------------------------------------
\* shapes.sum(): np.sum dispatched to every leaf of the shape tree, and the
\* sum of the results.
RECURSIVE TreeSum(_, _)
TreeSum(h, x) ==
    IF IsTree(h, x) THEN Sum([i \in 1..TreeLen(h, x) |-> TreeSum(h, values(h, x)[i])])
    ELSE Sum(h[x].data)

\* vals.reshape(shape, order): position in vals of the element at row-major
\* position f (from 1) of the result.
ReshapePos(f, shape, order) ==
    IF order = "C" THEN f
    ELSE 1 + Sum([k \in 1..Len(shape) |->
                    (((f - 1) \div Stride(shape, k)) % shape[k])
                      * Prod(SubSeq(shape, 1, k - 1))])

RECURSIVE _from_vector(_, _, _, _, _, _, _)
\* The loop of _from_vector from the i-th item of shapes on: contents is the
\* dict being filled.  The outcome also carries the new vector_idx.
_from_vector(h, vector, shapes, order, vector_idx, contents, i) ==
    LET R(hh, r, err, idx) == [h |-> hh, r |-> r, err |-> err, idx |-> idx]
        key   == keys(h, shapes)[i]
        shape == values(h, shapes)[i]
        Nested(sub) ==
            IF ~Ok(sub.err) THEN sub
            ELSE _from_vector(PySetItem(sub.h, contents, key, sub.r).h, vector,
                              shapes, order, sub.idx, contents, i + 1)
        Sliced(dims, num_elem, array_vals) ==
            IF Len(array_vals) # Prod(dims)
            THEN R(h, 0, Err("ValueError", "cannot reshape array"), vector_idx)
            ELSE _from_vector(
                     PySetItem(Append(h, ArrCell(dims,
                                  [f \in 1..Prod(dims) |->
                                     array_vals[ReshapePos(f, dims, order)]],
                                  h[vector].dtype)),
                               contents, key, Len(h) + 1).h,
                     vector, shapes, order, vector_idx + num_elem, contents, i + 1)
        Leaf(dims, num_elem, n) ==
            Sliced(dims, num_elem,
                   SubSeq(h[vector].data, Clip(vector_idx, n) + 1,
                          Clip(vector_idx + num_elem, n)))
    IN  IF i > TreeLen(h, shapes)
        THEN IF contents_type(h, shapes) = "list"
             THEN R(Append(h, ListCell(h[contents].vs)), Len(h) + 1, NoErr, vector_idx)
             ELSE R(h, contents, NoErr, vector_idx)
        ELSE IF IsTree(h, shape)
        THEN Nested(_from_vector(Append(h, DictCell(<<>>, <<>>)), vector, shape,
                                 order, vector_idx, Len(h) + 1, 1))
        ELSE Leaf(IF h[shape].dims = <<>> THEN <<h[shape].data[1]>> ELSE h[shape].data,
                  Prod(h[shape].data), Len(h[vector].data))

\* cls._concatenate_values_into_arraytainer(values) for a sequence of at most
\* one value; longer sequences are concatenated by numpy and are not modelled.
_concatenate_values_into_arraytainer(h, vals) ==
    IF Len(h[vals].vs) = 1
    THEN IF is_list(h, h[vals].vs[1]) \/ is_dict(h, h[vals].vs[1])
         THEN Construct(h, h[vals].vs[1], TRUE, "None", TRUE, {})
         ELSE IF ~IsTree(h, h[vals].vs[1])
         THEN Out(h, 0, Err("ValueError", "single entry is not an arraytainer"))
         ELSE Out(h, h[vals].vs[1], NoErr)
    ELSE Out(h, 0, Err("ValueError", "values must contain at least one arraytainer"))

\* The statement under "if output_size != array.size": the exception is built
\* and dropped, nothing is raised.
SizeCheck(output_size, size) == NoErr

\* Arraytainer.from_array(array, shapes, order)
from_array(h, array, shapes, order) ==
    LET Built(built) ==
            IF ~Ok(built.err) THEN Out(built.h, 0, built.err)
            ELSE Construct(built.h, built.r, TRUE, "None", TRUE, {})
        Checked(conc, checked) ==
            IF ~Ok(checked) THEN Out(h, 0, checked)
            ELSE Built(_from_vector(
                     Append(Append(conc.h, ArrCell(<<Prod(h[array].dims)>>, h[array].data,
                                                   h[array].dtype)),
                            DictCell(<<>>, <<>>)),
                     Len(conc.h) + 1, conc.r, order, 0, Len(conc.h) + 2, 1))
        Concatenated(conc) ==
            IF ~Ok(conc.err)
            THEN Out(h, 0, Err("ValueError", "shapes must contain at least one arraytainer"))
            ELSE Checked(conc, SizeCheck(TreeSum(conc.h, conc.r), Prod(h[array].dims)))
    IN  Concatenated(IF is_list(h, shapes)
                     THEN _concatenate_values_into_arraytainer(h, shapes)
                     ELSE Out(h, shapes, NoErr))

\* ------------------------------------------------------------------------
\* The heap between operations: cells no caller can reach are dropped
\* ------------------------------------------------------------------------
Refs(cell) == IF cell.kind = "tree" THEN {cell.c} ELSE Range(cell.vs)

RECURSIVE ReachFrom(_, _)
ReachFrom(h, S) ==
    LET Grown(N) == IF N = S THEN S ELSE ReachFrom(h, N)
    IN  Grown(S \cup UNION {Refs(h[x]) : x \in S})

\* The heap h after an operation that started with n0 cells and hands the
\* cells in keeps to the caller: the older cells stay where they are, the new
\* cells reachable from them or from keeps move up, the rest are garbage.
Compact(h, n0, keeps) ==
    LET Renumbered(keep) ==
            LET rank(x) == IF x = 0 THEN 0 ELSE Cardinality({y \in keep : y <= x})
                old(i)  == CHOOSE x \in keep : rank(x) = i
                ren(cell) == [cell EXCEPT !.c  = rank(cell.c),
                                          !.vs = [j \in DOMAIN cell.vs |-> rank(cell.vs[j])]]
            IN  [h |-> [i \in 1..Cardinality(keep) |-> ren(h[old(i)])],
                 r |-> [j \in DOMAIN keeps |-> rank(keeps[j])]]
    IN  Renumbered(ReachFrom(h, (1..n0) \cup (Range(keeps) \ {0})))

\* ------------------------------------------------------------------------
\* The caller's program: a heap of objects and one operation after another
\* ------------------------------------------------------------------------
VARIABLES
    heap,   \* the objects the caller can reach
    pre,    \* the heap as it was before the last operation
    last,   \* the last operation: what was called, on what, and its outcome
    steps   \* operations performed so far
vars == <<heap, pre, last, steps>>

A == StrKey("a")
B == StrKey("b")
C == StrKey("c")
Z == StrKey("z")
\* ('a', 'b'): a tuple that is no index expression
TupS == TupleKey(<<A, B>>)
\* (1, 2): a tuple of ints, which is_slice takes for an index expression
TupI == TupleKey(<<IntKey(1), IntKey(2)>>)
Seven == LNum(7)

Trees(h) == {x \in 1..Len(h) : IsTree(h, x)}

\* The record kept of one operation: the call (op, target t, subscript key or
\* the expression klit that makes it, value val, key_iterable path, deepcopy
\* or operand-order flag, dtype, order) and its outcome (arg: the subscript
\* object, second operand or caller's structure; res: the object returned;
\* err: the exception raised).
Op(op, t, key, klit, val, path, flag, dtype, order) ==
    [op |-> op, t |-> t, key |-> key, klit |-> klit, val |-> val, path |-> path,
     flag |-> flag, dtype |-> dtype, order |-> order, arg |-> 0, res |-> 0,
     err |-> NoErr]
NoOp == Op("init", 0, NoneKey, LNum(0), LNum(0), <<>>, FALSE, "None", "C")

\* {a: [1, 2], b: {a: [3, 4]}}, [[1, 2], [[3, 4]]] and
\* {a: [[1, 2], [3, 4]], b: [5, 6, 7]} with ndarray leaves
D0 == LTree(LDict(<<A, B>>, <<LArr(<<2>>, <<1, 2>>), LDict(<<A>>, <<LArr(<<2>>, <<3, 4>>)>>)>>))
L0 == LTree(LList(<<LArr(<<2>>, <<1, 2>>), LList(<<LArr(<<2>>, <<3, 4>>)>>)>>))
D1 == LTree(LDict(<<A, B>>, <<LArr(<<2, 2>>, <<1, 2, 3, 4>>), LArr(<<3>>, <<5, 6, 7>>)>>))
Start(lit) ==
    LET Made(e) == Compact(e.h, 0, <<e.r>>).h
    IN  Made(Eval(<<>>, lit))

Init ==
    /\ heap \in {Start(D0), Start(L0), Start(D1)}
    /\ pre = heap
    /\ last = NoOp
    /\ steps = 0

\* The end of every operation: the caller keeps the objects it held before,
\* the object arg it made for the call and the object the call returned.
Finish(rec, o, arg) ==
    LET Kept(c) ==
            /\ heap' = c.h
            /\ last' = [rec EXCEPT !.arg = c.r[1], !.res = c.r[2], !.err = o.err]
    IN  /\ Kept(Compact(o.h, Len(heap), <<arg, IF Ok(o.err) THEN o.r ELSE 0>>))
        /\ pre' = heap
        /\ steps' = steps + 1

\* The subscripts and values of the indexed assignments the caller makes.
\* key is the subscript; a subscript that is an object (an ndarray or an
\* Arraytainer) is RefKey(0) here and klit is the expression that makes it.
SetInput(key, klit, val) == [key |-> key, klit |-> klit, val |-> val]
PlainSets(h) ==
    {SetInput(k, LNum(0), Seven) :
        k \in {IntKey(0), IntKey(0 - 1), IntKey(2), IntKey(3), A, Z, TupS}}
    \cup {SetInput(k, LNum(0), LRef(x)) : k \in {IntKey(0), A}, x \in Trees(h)}
SliceSets(h) ==
    {SetInput(SliceKey(0, 1), LNum(0), v) :
        v \in {Seven,
               LDict(<<A>>, <<Seven>>),
               LDict(<<A, Z>>, <<Seven, Seven>>),
               LDict(<<A, B>>, <<Seven, Seven>>),
               LDict(<<A, B>>, <<Seven, LDict(<<A>>, <<Seven>>)>>),
               LList(<<Seven>>),
               LList(<<Seven, Seven, Seven>>),
               LArr(<<3>>, <<7, 8, 9>>)}}
    \cup {SetInput(TupleKey(<<IntKey(0)>>), LNum(0), Seven),
          SetInput(RefKey(0), LArr(<<>>, <<1>>), Seven)}
TreeKeySets(h) ==
    {SetInput(RefKey(0), k, v) :
        k \in {LRawTree(LDict(<<A>>, <<LSlice(0, 1)>>)),
               LTree(LDict(<<A>>, <<LNum(0)>>)),
               LTree(LDict(<<A, Z>>, <<LNum(0), LNum(0)>>)),
               LTree(LDict(<<B>>, <<LDict(<<A>>, <<LNum(0)>>)>>)),
               LTree(LList(<<LNum(0)>>)),
               LTree(LList(<<LNum(0), LNum(0), LNum(0)>>))},
        v \in {Seven,
               LDict(<<A>>, <<Seven>>),
               LDict(<<B>>, <<Seven>>),
               LDict(<<A>>, <<LDict(<<A>>, <<Seven>>)>>),
               LDict(<<B>>, <<LDict(<<A>>, <<Seven>>)>>),
               LList(<<Seven>>)}}
SetInputs(h) == PlainSets(h) \cup SliceSets(h) \cup TreeKeySets(h)

\* self[key] = value
SetItem ==
    /\ steps < MaxSteps
    /\ \E t \in Trees(heap), inp \in SetInputs(heap) :
         LET Valued(key, vc) ==
                 Finish(Op("set", t, inp.key, inp.klit, inp.val, <<>>, FALSE, "None", "C"),
                        __setitem__(vc.h, t, key, vc.r, {}), 0)
             Keyed(kc) == Valued(IF inp.key.t = "ref" THEN RefKey(kc.r) ELSE inp.key,
                                 Eval(kc.h, inp.val))
         IN  Keyed(IF inp.key.t = "ref" THEN Eval(heap, inp.klit) ELSE Out(heap, 0, NoErr))

AppendInputs(h) ==
    {<<Seven, <<>>>>, <<Seven, <<B>>>>, <<Seven, <<IntKey(1)>>>>,
     <<LList(<<Seven>>), <<>>>>}
    \cup {<<LRef(x), <<>>>> : x \in Trees(h)}

\* self.append(value, *key_iterable)
AppendItem ==
    /\ steps < MaxSteps
    /\ \E t \in Trees(heap), inp \in AppendInputs(heap) :
         LET Valued(vc) ==
                 Finish(Op("append", t, NoneKey, LNum(0), inp[1], inp[2], FALSE, "None", "C"),
                        append(vc.h, t, vc.r, inp[2]), 0)
         IN  Valued(Eval(heap, inp[1]))

UpdateInputs(h) ==
    {<<LDict(<<Z>>, <<Seven>>), <<>>>>, <<LDict(<<Z>>, <<Seven>>), <<B>>>>,
     <<LDict(<<TupI>>, <<Seven>>), <<>>>>, <<Seven, <<>>>>}
    \cup {<<LRef(x), <<>>>> : x \in Trees(h)}

\* self.update(value, *key_iterable)
UpdateItems ==
    /\ steps < MaxSteps
    /\ \E t \in Trees(heap), inp \in UpdateInputs(heap) :
         LET Valued(vc) ==
                 Finish(Op("update", t, NoneKey, LNum(0), inp[1], inp[2], FALSE, "None", "C"),
                        update(vc.h, t, vc.r, inp[2]), 0)
         IN  Valued(Eval(heap, inp[1]))

\* The structures the caller hands to the constructor, with the deepcopy
\* flag and the dtype.
NewInputs(h) ==
    {<<LDict(<<A>>, <<LArr(<<2>>, <<5, 6>>)>>), dc, "float">> : dc \in BOOLEAN}
    \cup {<<LList(<<LRef(x)>>), dc, "None">> : x \in Trees(h), dc \in BOOLEAN}
    \cup {<<LDict(<<TupI>>, <<LNum(5)>>), TRUE, "None">>,
          <<LDict(<<A>>, <<LDict(<<TupI>>, <<LNum(5)>>)>>), TRUE, "None">>,
          <<LList(<<LDict(<<TupS>>, <<LNum(5)>>)>>), FALSE, "None">>,
          <<LNum(5), TRUE, "None">>}

\* Arraytainer(contents, dtype=dtype, deepcopy=deepcopy): the caller keeps
\* contents and the new tree.
NewTree ==
    /\ steps < MaxSteps
    /\ \E inp \in NewInputs(heap) :
         LET Made(src) ==
                 Finish(Op("new", 0, NoneKey, LNum(0), inp[1], <<>>, inp[2], inp[3], "C"),
                        Construct(src.h, src.r, TRUE, inp[3], inp[2], {}), src.r)
         IN  Made(Eval(heap, inp[1]))

\* self.copy()
Copy ==
    /\ steps < MaxSteps
    /\ \E t \in Trees(heap) :
         Finish(Op("copy", t, NoneKey, LNum(0), LNum(0), <<>>, FALSE, "None", "C"),
                copy(heap, t), 0)

\* self.deepcopy()
DeepCopyTree ==
    /\ steps < MaxSteps
    /\ \E t \in Trees(heap) :
         Finish(Op("deepcopy", t, NoneKey, LNum(0), LNum(0), <<>>, FALSE, "None", "C"),
                deepcopy(heap, t), 0)

\* The subscripts of the indexed reads the caller makes (klit as in SetInput).
\* The index trees hold ints and slices as they are (array_conversions=False)
\* or converted to arrays by the default constructor.
GetInputs ==
    {SetInput(k, LNum(0), LNum(0)) : k \in {A, Z, IntKey(0), IntKey(5), SliceKey(0, 1)}}
    \cup {SetInput(RefKey(0), k, LNum(0)) :
            k \in {LRawTree(LDict(<<A, B>>, <<LNum(0), LSlice(0, 2)>>)),
                   LRawTree(LDict(<<A>>, <<LNum(0)>>)),
                   LTree(LDict(<<A>>, <<LNum(0)>>)),
                   LRawTree(LDict(<<IntKey(1)>>, <<LNum(0)>>)),
                   LRawTree(LList(<<LNum(0)>>)),
                   LRawTree(LDict(<<A, Z>>, <<LNum(0), LNum(0)>>)),
                   LTree(LDict(<<A>>, <<LDict(<<A>>, <<LNum(0)>>)>>)),
                   LRawTree(LDict(<<B>>, <<LRawTree(LDict(<<Z>>, <<LNum(0)>>))>>)),
                   LRawTree(LDict(<<B>>, <<LRawTree(LDict(<<A>>, <<LNum(0)>>))>>))}}

\* self[key]: the caller keeps the object returned.
GetItem ==
    /\ steps < MaxSteps
    /\ \E t \in Trees(heap), inp \in GetInputs :
         LET Keyed(kc) ==
                 Finish(Op("get", t, inp.key, inp.klit, LNum(0), <<>>, FALSE, "None", "C"),
                        __getitem__(kc.h, t,
                                    IF inp.key.t = "ref" THEN RefKey(kc.r) ELSE inp.key, {}),
                        0)
         IN  Keyed(IF inp.key.t = "ref" THEN Eval(heap, inp.klit) ELSE Out(heap, 0, NoErr))

\* The second operands of the additions the caller makes.
AddInputs(h) ==
    {Seven,
     LTree(LDict(<<A>>, <<LNum(10)>>)),
     LTree(LDict(<<A, Z>>, <<LNum(10), LNum(1)>>)),
     LTree(LDict(<<B>>, <<LDict(<<Z>>, <<LNum(1)>>)>>)),
     LTree(LDict(<<A>>, <<LArr(<<3>>, <<1, 2, 3>>)>>)),
     LTree(LDict(<<A, B, C>>, <<LNum(10), LDict(<<A>>, <<LNum(20)>>), LNum(30)>>)),
     LTree(LDict(<<IntKey(0)>>, <<LNum(10)>>)),
     LTree(LList(<<LNum(10)>>))}
    \cup {LRef(x) : x \in Trees(h)}

\* self + other (flag FALSE) or other + self (flag TRUE): the caller keeps
\* other and the object returned.
Add ==
    /\ steps < MaxSteps
    /\ \E t \in Trees(heap), other \in AddInputs(heap), flag \in BOOLEAN :
         LET Made(oc) ==
                 Finish(Op("add", t, NoneKey, LNum(0), other, <<>>, flag, "None", "C"),
                        CallFunc(oc.h, IF flag THEN <<oc.r, t>> ELSE <<t, oc.r>>),
                        oc.r)
         IN  Made(Eval(heap, other))

\* The flat arrays and shape trees handed to from_array: shapes asking for
\* four elements ({a: (2,), b: (1, 2)} and [(2, 2)]), arrays of three, four
\* and five elements.
Shapes ==
    {LTree(LDict(<<A, B>>, <<LArr(<<1>>, <<2>>), LArr(<<2>>, <<1, 2>>)>>)),
     LTree(LList(<<LArr(<<2>>, <<2, 2>>)>>))}
Arrays ==
    {LArr(<<3>>, <<1, 2, 3>>), LArr(<<4>>, <<1, 2, 3, 4>>), LArr(<<2, 2>>, <<1, 2, 3, 4>>),
     LArr(<<5>>, <<1, 2, 3, 4, 5>>)}
FromArrayInputs ==
    {<<a, s, order>> : a \in Arrays, s \in Shapes, order \in {"C", "F"}}
    \cup {<<a, LList(<<s>>), "C">> : a \in Arrays, s \in Shapes}

\* Arraytainer.from_array(array, shapes, order): the caller keeps the tree
\* returned.
FromArray ==
    /\ steps < MaxSteps
    /\ \E inp \in FromArrayInputs :
         LET Shaped(ac, sc) ==
                 Finish(Op("from_array", 0, NoneKey, inp[2], inp[1], <<>>, FALSE, "None",
                           inp[3]),
                        from_array(sc.h, ac.r, sc.r, inp[3]), 0)
             Made(ac) == Shaped(ac, Eval(ac.h, inp[2]))
         IN  Made(Eval(heap, inp[1]))

Next ==
    \/ SetItem
    \/ AppendItem
    \/ UpdateItems
    \/ NewTree
    \/ Copy
    \/ DeepCopyTree
    \/ GetItem
    \/ Add
    \/ FromArray

Spec == Init /\ [][Next]_vars

\* ------------------------------------------------------------------------
\* Vocabulary of the properties
\* ------------------------------------------------------------------------
IsKeyError(e) == e.cls = "KeyError"

\* The objects that can be written in place.
Mutable(h, x) == h[x].kind \notin {"num", "slice"}

\* Two objects have a writable object in common.
Shares(h, x, y) ==
    \E z \in ReachFrom(h, {x}) \cap ReachFrom(h, {y}) : Mutable(h, z)

\* No object that existed before the last operation was written by it.
NothingWritten == \A x \in 1..Len(pre) : heap[x] = pre[x]

\* Object x and everything below it is as it was before the last operation.
Unchanged(x) == \A y \in ReachFrom(pre, {x}) : heap[y] = pre[y]

\* x in h1 and y in h2 are equal in structure and in leaf values.  fuel bounds
\* the depth, which in a structure without cycles is below the heap's size.
RECURSIVE SameVal(_, _, _, _, _)
SameVal(h1, x, h2, y, fuel) ==
    IF fuel = 0 \/ h1[x].kind # h2[y].kind THEN FALSE
    ELSE IF h1[x].kind = "tree" THEN SameVal(h1, h1[x].c, h2, h2[y].c, fuel - 1)
    ELSE IF h1[x].kind \in {"list", "dict"}
    THEN /\ h1[x].ks = h2[y].ks
         /\ Len(h1[x].vs) = Len(h2[y].vs)
         /\ \A i \in DOMAIN h1[x].vs : SameVal(h1, h1[x].vs[i], h2, h2[y].vs[i], fuel - 1)
    ELSE /\ h1[x].dims = h2[y].dims
         /\ h1[x].data = h2[y].data
         /\ h1[x].dtype = h2[y].dtype
Equal(h1, x, h2, y) == SameVal(h1, x, h2, y, Len(h1) + 1)

\* The same, whatever the element type of the leaves: a tree's deepcopy()
\* re-types its leaves to the tree's dtype.
RECURSIVE SameData(_, _, _, _, _)
SameData(h1, x, h2, y, fuel) ==
    IF fuel = 0 \/ h1[x].kind # h2[y].kind THEN FALSE
    ELSE IF h1[x].kind = "tree" THEN SameData(h1, h1[x].c, h2, h2[y].c, fuel - 1)
    ELSE IF h1[x].kind \in {"list", "dict"}
    THEN /\ h1[x].ks = h2[y].ks
         /\ Len(h1[x].vs) = Len(h2[y].vs)
         /\ \A i \in DOMAIN h1[x].vs : SameData(h1, h1[x].vs[i], h2, h2[y].vs[i], fuel - 1)
    ELSE /\ h1[x].dims = h2[y].dims
         /\ h1[x].data = h2[y].data
EqualData(h1, x, h2, y) == SameData(h1, x, h2, y, Len(h1) + 1)

\* The operands of the last addition, in the order of the call, the reference
\* among two trees and the other one.
AddArgs  == IF last.flag THEN <<last.arg, last.t>> ELSE <<last.t, last.arg>>
AddTrees == last.op = "add" /\ IsTree(heap, last.arg)
AddRef   == Largest(heap, AddArgs)
AddOther == IF AddRef = AddArgs[1] THEN AddArgs[2] ELSE AddArgs[1]

\* The entry of the result of the last addition at the i-th key of tree x is
\* the sum of the operands' children at that key.
AddedAt(x, i) ==
    LET Expected(e) == Ok(e.err) /\ Equal(heap, values(heap, last.res)[i], e.h, e.r)
    IN  Expected(CallFunc(heap, _prepare_func_args(heap, AddArgs, keys(heap, x)[i])))

\* The entry of the result of the last addition at the i-th key of tree x is
\* a deep copy of the child of x: equal to it (up to the element type of the
\* leaves when the child is a tree) and with no writable object in common.
CopiedAt(x, i) ==
    /\ EqualData(heap, values(heap, last.res)[i], heap, values(heap, x)[i])
    /\ (is_array(heap, values(heap, x)[i])
        => Equal(heap, values(heap, last.res)[i], heap, values(heap, x)[i]))
    /\ ~Shares(heap, values(heap, last.res)[i], values(heap, x)[i])

\* ------------------------------------------------------------------------
\* Claims
\* ------------------------------------------------------------------------
\* C1, as stated: when two trees are added, the addition succeeds with a
\* result over the reference's key set K whenever the other operand's key set
\* K' is a subset of K, and fails with a KeyError otherwise.
C1_AsStated ==
    AddTrees =>
        IF KeySet(heap, AddOther) \subseteq KeySet(heap, AddRef)
        THEN /\ Ok(last.err)
             /\ last.res # 0
             /\ KeySet(heap, last.res) = KeySet(heap, AddRef)
        ELSE IsKeyError(last.err) /\ last.res = 0

\* C1, amended: when two trees are added and they differ in keying mode or K'
\* is not a subset of K, the addition fails with a KeyError and returns no
\* tree; whenever it succeeds, the trees have the same keying mode, K' is a
\* subset of K, and the result is a new tree with the reference's keys, in
\* the reference's order, that holds at every key of K' the sum of the two
\* children and at every other key a deep copy of the reference's child.
C1_SubsetRule ==
    AddTrees =>
        /\ (contents_type(heap, AddOther) # contents_type(heap, AddRef)
            \/ ~(KeySet(heap, AddOther) \subseteq KeySet(heap, AddRef)))
           => IsKeyError(last.err) /\ last.res = 0 /\ NothingWritten
        /\ Ok(last.err) =>
             /\ IsTree(heap, last.res)
             /\ last.res > Len(pre)
             /\ contents_type(heap, last.res) = contents_type(heap, AddRef)
             /\ keys(heap, last.res) = keys(heap, AddRef)
             /\ \A i \in 1..TreeLen(heap, AddRef) :
                    IF KeyIn(heap, AddOther, keys(heap, AddRef)[i])
                    THEN AddedAt(AddRef, i)
                    ELSE CopiedAt(AddRef, i)

\* C1, witness: an addition of a tree with keys {a, b, c} and a tree with
\* keys {a, b} has succeeded.
C1_Witness ==
    /\ AddTrees
    /\ Ok(last.err)
    /\ KeySet(heap, AddRef) = {A, B, C}
    /\ KeySet(heap, AddOther) = {A, B}

\* C2, as stated: adding a tree T and a number c succeeds and returns a tree
\* with T's keying mode and keys whose entry at every key is the sum of T's
\* child and c; T is unchanged.
C2_TreePlusScalar ==
    (last.op = "add" /\ heap[last.arg].kind = "num") =>
        /\ Ok(last.err)
        /\ IsTree(heap, last.res)
        /\ contents_type(heap, last.res) = contents_type(heap, last.t)
        /\ keys(heap, last.res) = keys(heap, last.t)
        /\ \A i \in 1..TreeLen(heap, last.t) : AddedAt(last.t, i)
        /\ Unchanged(last.t)

\* The target of the last operation was a list-like tree (of length ListLen)
\* when the operation began.
ListTarget == last.t # 0 /\ contents_type(pre, last.t) = "list"
ListLen    == TreeLen(pre, last.t)

\* Child x of a tree is the normalized form of the caller's value val.
Normalized(val, x) ==
    IF val.t = "ref" THEN x = val.n
    ELSE IF val.t = "num"
    THEN is_array(heap, x) /\ heap[x].dims = <<>> /\ heap[x].data = <<val.n>>
    ELSE /\ IsTree(heap, x)
         /\ contents_type(heap, x) = val.t
         /\ TreeLen(heap, x) = Len(val.items)

\* C3: on a list-like tree of length n, an assignment at a plain integer
\* position outside -n..n-1 fails with a KeyError and leaves the tree and all
\* below it unchanged; append(value) succeeds, keeps the n children and puts
\* the normalized value at position n; no assignment of any kind changes the
\* length of any list-like tree.
C3_ListGrowth ==
    /\ (last.op = "set" /\ ListTarget /\ last.key.t = "int"
        /\ last.key.i \notin (0 - ListLen)..(ListLen - 1))
       => IsKeyError(last.err) /\ Unchanged(last.t)
    /\ (last.op = "append" /\ ListTarget /\ last.path = <<>>)
       => /\ Ok(last.err)
          /\ TreeLen(heap, last.t) = ListLen + 1
          /\ SubSeq(values(heap, last.t), 1, ListLen) = values(pre, last.t)
          /\ Normalized(last.val, values(heap, last.t)[ListLen + 1])
    /\ last.op = "set"
       => \A x \in Trees(pre) :
              contents_type(pre, x) = "list"
              => /\ heap[x].c = pre[x].c
                 /\ contents_type(heap, x) = "list"
                 /\ TreeLen(heap, x) = TreeLen(pre, x)

\* C3, witness: after an append made a list-like tree three long, an
\* assignment at position 3 has failed with a KeyError.
C3_Witness ==
    /\ last.op = "set"
    /\ ListTarget
    /\ ListLen = 3
    /\ last.key = IntKey(ListLen)
    /\ IsKeyError(last.err)

\* The caller's structure lit has a tuple among the keys of a mapping, at any
\* depth.
RECURSIVE HasTupleKey(_)
HasTupleKey(lit) ==
    \/ \E i \in DOMAIN lit.ks : lit.ks[i].t = "tuple"
    \/ \E i \in DOMAIN lit.items : HasTupleKey(lit.items[i])

\* C4, as stated: construction from a structure with a tuple key at any depth
\* fails with a KeyError, and no dict-like tree ever has a tuple among its
\* keys.
C4_NoTupleKeys ==
    /\ (last.op = "new" /\ HasTupleKey(last.val)) => IsKeyError(last.err) /\ last.res = 0
    /\ \A t \in Trees(heap) :
           is_dict(heap, heap[t].c) => ~_keys_contain_tuple(heap, heap[t].c)

\* The number of elements the shape tree lit asks for: the sum over its
\* leaves of the product of the leaf's shape.
RECURSIVE Requested(_)
Requested(lit) ==
    IF lit.t = "array" THEN Prod(lit.data)
    ELSE Sum([i \in DOMAIN lit.items |-> Requested(lit.items[i])])

\* C5, as stated: from_array fails, having built nothing, whenever the shapes
\* ask for a number of elements other than the array's size.
C5_SizeValidated ==
    (last.op = "from_array" /\ Requested(last.klit) # Prod(last.val.dims))
        => ~Ok(last.err) /\ last.res = 0

\* C6, as stated: an indexed assignment that fails leaves its target tree and
\* all below it as they were, and an addition that fails returns nothing and
\* writes nothing.
C6_NoPartialSuccess ==
    /\ (last.op = "set" /\ ~Ok(last.err)) => Unchanged(last.t)
    /\ (last.op = "add" /\ ~Ok(last.err)) => last.res = 0 /\ NothingWritten

\* C7, as stated: no tree is reachable from itself by following children.
C7_Acyclic ==
    \A t \in Trees(heap) : t \notin ReachFrom(heap, {heap[t].c})

\* No two trees that had no writable object in common before the last
\* operation have one after it, and a tree the operation made has none in
\* common with a tree that existed before.
NoNewSharing ==
    /\ \A x \in Trees(pre), y \in Trees(pre) :
           ~Shares(pre, x, y) => ~Shares(heap, x, y)
    /\ last.res > Len(pre) => \A x \in Trees(pre) : ~Shares(heap, x, last.res)

\* deepcopy() and the default construction share nothing with their source,
\* and deepcopy() keeps the dtype and the values.
CopiesAreApart ==
    /\ (last.op = "deepcopy" /\ Ok(last.err))
       => /\ last.res > Len(pre)
          /\ ~Shares(heap, last.t, last.res)
          /\ heap[last.res].dtype = heap[last.t].dtype
          /\ EqualData(heap, last.t, heap, last.res)
          /\ NothingWritten
    /\ (last.op = "new" /\ last.flag /\ Ok(last.err))
       => ~Shares(heap, last.arg, last.res) /\ NothingWritten

\* A set, append or update writes only to objects that were reachable from
\* its target.
WritesBelowTarget ==
    last.op \in {"set", "append", "update"}
        => \A x \in 1..Len(pre) : heap[x] # pre[x] => x \in ReachFrom(pre, {last.t})

\* C8, as stated: deepcopy() and the default construction share nothing with
\* their source, so that writes to one never show in the other, and sharing
\* between trees arises only through copy() or construction with
\* deepcopy=False.
C8_AsStated ==
    /\ CopiesAreApart
    /\ WritesBelowTarget
    /\ (last.op # "copy" /\ ~(last.op = "new" /\ ~last.flag)) => NoNewSharing

\* C8, what holds of it: deepcopy() and the default construction share
\* nothing with their source, deepcopy() keeps dtype and values, and a set,
\* append or update writes only below its target; apart from copy() and
\* construction with deepcopy=False, the one operation that makes two trees
\* share is a set, append or update whose value is an existing object, which
\* is stored as it is.
C8_CopyIndependence ==
    /\ CopiesAreApart
    /\ WritesBelowTarget
    /\ (last.op # "copy" /\ ~(last.op = "new" /\ ~last.flag)
        /\ ~(last.op \in {"set", "append", "update"} /\ last.val.t = "ref"))
       => NoNewSharing

\* The last operation was a read whose subscript is an index tree.
TreeRead == last.op = "get" /\ last.klit.t \in {"tree", "rawtree"}

\* In heap h, every key of index tree I is a key of tree T, and no key pairs
\* a leaf array of T with a tree in I.
TopLevelFits(h, T, I) ==
    \A i \in 1..TreeLen(h, I) :
        /\ KeyIn(h, T, keys(h, I)[i])
        /\ ~(is_array(h, PyGetItem(h, h[T].c, keys(h, I)[i]).r)
             /\ IsTree(h, values(h, I)[i]))

\* The i-th entry of the tree the last read returned is T[k][I[k]] for the
\* i-th key k of I.
ReadAt(h, T, I, i) ==
    LET Expected(e) == Ok(e.err) /\ Equal(heap, values(heap, last.res)[i], e.h, e.r)
    IN  Expected(Subscript(h, PyGetItem(h, h[T].c, keys(h, I)[i]).r,
                           AsKey(h, values(h, I)[i]), {}))

\* The claim about a read by index tree, as stated, for the index tree e.r
\* in heap e.h.
ReadAsStated(e) ==
    /\ NothingWritten
    /\ IF TopLevelFits(e.h, last.t, e.r)
       THEN /\ Ok(last.err)
            /\ IsTree(heap, last.res)
            /\ contents_type(heap, last.res) = contents_type(pre, last.t)
            /\ KeySet(heap, last.res) = KeySet(e.h, e.r)
       ELSE ~Ok(last.err)

\* The same as the code has it.
ReadAsCoded(e) ==
    /\ NothingWritten
    /\ ~TopLevelFits(e.h, last.t, e.r) => ~Ok(last.err)
    /\ Ok(last.err) =>
         /\ IsTree(heap, last.res)
         /\ last.res > Len(pre)
         /\ contents_type(heap, last.res) = contents_type(pre, last.t)
         /\ TreeLen(heap, last.res) = TreeLen(e.h, e.r)
         /\ contents_type(pre, last.t) = "dict" => keys(heap, last.res) = keys(e.h, e.r)
         /\ \A i \in 1..TreeLen(e.h, e.r) : ReadAt(e.h, last.t, e.r, i)

SliceWrite == last.op = "set" /\ is_slice(last.key)

\* The value of the last assignment as __setitem__ normalizes it, in the heap
\* it is made in.
SetValue ==
    LET Normal(vc) == _convert_to_array_or_arraytainer(vc.h, last.t, vc.r)
    IN  Normal(Eval(pre, last.val))

\* Leaf array x holds what writing v (of heap h) at the subscript of the last
\* assignment makes of it.
WrittenWith(h, x, v) ==
    LET Expected(w) == Ok(w.err) /\ heap[x].data = w.h[x].data
    IN  Expected(NpSet(h, x, last.key, v))

\* Child x of the target T is as it was, unless it has a writable object in
\* common with a child of T at a key of tree V.
LeftAlone(h, T, V, x) ==
    (\A j \in 1..TreeLen(pre, T) :
         KeyIn(h, V, keys(pre, T)[j]) => ~Shares(pre, x, values(pre, T)[j]))
    => Unchanged(x)

\* The claim about a slice-indexed write of the tree e.r of heap e.h, as
\* stated: it needs every key of self in the value, with a leaf array in the
\* value wherever self has one.
TreeWriteAsStated(e) ==
    IF \A i \in 1..TreeLen(pre, last.t) :
           /\ KeyIn(e.h, e.r, keys(pre, last.t)[i])
           /\ is_array(pre, values(pre, last.t)[i])
              => is_array(e.h, PyGetItem(e.h, e.h[e.r].c, keys(pre, last.t)[i]).r)
    THEN Ok(last.err)
    ELSE IsKeyError(last.err)

\* The same as the code has it: it needs every key of the value in self.
TreeWriteAsCoded(e) ==
    /\ (\E i \in 1..TreeLen(e.h, e.r) :
           \/ ~KeyIn(pre, last.t, keys(e.h, e.r)[i])
           \/ /\ is_array(pre, PyGetItem(pre, pre[last.t].c, keys(e.h, e.r)[i]).r)
              /\ ~is_array(e.h, values(e.h, e.r)[i]))
       => ~Ok(last.err)
    /\ Ok(last.err) =>
         /\ \A i \in 1..TreeLen(e.h, e.r) :
                is_array(pre, PyGetItem(pre, pre[last.t].c, keys(e.h, e.r)[i]).r)
                => WrittenWith(e.h, PyGetItem(pre, pre[last.t].c, keys(e.h, e.r)[i]).r,
                               values(e.h, e.r)[i])
         /\ \A i \in 1..TreeLen(pre, last.t) :
                ~KeyIn(e.h, e.r, keys(pre, last.t)[i])
                => LeftAlone(e.h, last.t, e.r, values(pre, last.t)[i])

\* A value that is no tree is written into every leaf array child of self.
ArrayWriteAsCoded(e) ==
    Ok(last.err) =>
        \A i \in 1..TreeLen(pre, last.t) :
            is_array(pre, values(pre, last.t)[i])
            => WrittenWith(e.h, values(pre, last.t)[i], e.r)

TreeWrite == last.op = "set" /\ last.klit.t \in {"tree", "rawtree"}

\* The index tree I and the normalized value V of the last assignment, in
\* the heap h they are made in.
IndexAndValue ==
    LET Both(kc, vc)  == [h |-> vc.h, I |-> kc.r, V |-> vc.r]
        Valued(kc, ev) == Both(kc, _convert_to_array_or_arraytainer(ev.h, last.t, ev.r))
        Keyed(kc)     == Valued(kc, Eval(kc.h, last.val))
    IN  Keyed(Eval(pre, last.klit))

\* Key k of the index tree finds no child of self, or no slice of the value
\* to write there: k is not a key of self, or the value is a tree that lacks
\* k or holds a tree at k where self holds a leaf array.
Misaligned(e, k) ==
    IF ~KeyIn(e.h, last.t, k) THEN TRUE
    ELSE IF ~IsTree(e.h, e.V) THEN FALSE
    ELSE IF ~KeyIn(e.h, e.V, k) THEN TRUE
    ELSE /\ is_array(e.h, PyGetItem(e.h, e.h[last.t].c, k).r)
         /\ ~is_array(e.h, PyGetItem(e.h, e.h[e.V].c, k).r)

\* The child of self at the i-th key k of the index tree is what
\* self[k][mask] = slice makes of it, the slice being V[k] for a tree V and V
\* itself otherwise.
WrittenAt(e, i) ==
    LET k     == keys(e.h, e.I)[i]
        mask  == AsKey(e.h, values(e.h, e.I)[i])
        child == PyGetItem(e.h, e.h[last.t].c, k).r
        slice == IF IsTree(e.h, e.V) THEN PyGetItem(e.h, e.h[e.V].c, k).r ELSE e.V
        Expected(w) == Ok(w.err) /\ Equal(heap, child, w.h, child)
    IN  Expected(IF IsTree(e.h, child)
                 THEN __setitem__(e.h, child, mask, slice, {})
                 ELSE NpSet(e.h, child, mask, slice))

\* The children of self at keys the index tree lacks are as they were.
OthersLeftAlone(e) ==
    \A j \in 1..TreeLen(pre, last.t) :
        ~KeyIn(e.h, e.I, keys(pre, last.t)[j]) => Unchanged(values(pre, last.t)[j])

\* The claim about a write by index tree, as stated.
ParallelWriteAsStated(e) ==
    /\ (\E i \in 1..TreeLen(e.h, e.I) : Misaligned(e, keys(e.h, e.I)[i]))
       => IsKeyError(last.err)
    /\ Ok(last.err) =>
         /\ \A i \in 1..TreeLen(e.h, e.I) : WrittenAt(e, i)
         /\ OthersLeftAlone(e)

\* C11, as stated: an assignment T[I] = value with an index tree I fails with
\* a KeyError whenever a key of I is not in T (list-like or dict-like), or
\* value is a tree that lacks the key or holds a tree where T holds a leaf
\* array; when it succeeds, every key k of I has received
\* T[k][I[k]] = value[k] (value itself when it is a leaf array) and no child
\* of T at a key that I lacks is modified.
C11_AsStated == TreeWrite => ParallelWriteAsStated(IndexAndValue)

\* Below tree T, before the last operation, no tree is its own descendant and
\* no two children of T have a writable object in common.
TreeShaped(T) ==
    /\ \A x \in ReachFrom(pre, {T}) :
           IsTree(pre, x) => x \notin ReachFrom(pre, {pre[x].c})
    /\ \A i \in 1..TreeLen(pre, T), j \in 1..TreeLen(pre, T) :
           i # j => ~Shares(pre, values(pre, T)[i], values(pre, T)[j])

\* The same as the code has it: the lookups self.contents[key] and
\* new_val.contents[key] raise what the list or dict raises, which is no
\* KeyError for a list.
ParallelWriteAsCoded(e) ==
    /\ (\E i \in 1..TreeLen(e.h, e.I) : Misaligned(e, keys(e.h, e.I)[i]))
       => ~Ok(last.err)
    /\ (Ok(last.err) /\ TreeShaped(last.t)) =>
         /\ \A i \in 1..TreeLen(e.h, e.I) : WrittenAt(e, i)
         /\ OthersLeftAlone(e)

\* C11, what holds of it: an assignment T[I] = value with an index tree I
\* fails whenever a key of I is not in T, or value is a tree that lacks the
\* key or holds a tree where T holds a leaf array; when it succeeds on a T
\* that holds no tree twice, every key k of I has received
\* T[k][I[k]] = value[k] (value itself when it is a leaf array) and no child
\* of T at a key that I lacks is modified.
C11_ParallelWrite == TreeWrite => ParallelWriteAsCoded(IndexAndValue)

\* C11, the failing case: a list-like tree of length two written by the
\* index tree [0, 0, 0] has raised IndexError.
C11_Witness ==
    /\ TreeWrite
    /\ contents_type(pre, last.t) = "list"
    /\ TreeLen(pre, last.t) = 2
    /\ last.klit = LTree(LList(<<LNum(0), LNum(0), LNum(0)>>))
    /\ last.val = Seven
    /\ last.err.cls = "IndexError"

====
